---------------------------- MODULE Spec2Model ----------------------------
(***************************************************************************)
(* Model of the bill cleaning pipeline of bill_cleaner_upload:             *)
(*   data/clean_alipay_bill.py, data/clean_wechat_bill.py  (cleaners)      *)
(*   bill_processor_integrated.py                          (orchestrator)  *)
(*                                                                         *)
(* Text is modelled as a sequence of characters; a character is a short    *)
(* ASCII token (the pinyin of a Chinese character, "," for the comma,      *)
(* "SP" for a blank, "YEN" for the currency glyph).  File bytes are the    *)
(* integers 0..255.                                                        *)
(***************************************************************************)
EXTENDS Integers, Sequences, FiniteSets, TLC

VARIABLES
    probe,      \* SpecDetect: the bytes of the file handed to detect_file_encoding
    detected,   \* SpecDetect: what detect_file_encoding did with it
    cleaner,    \* SpecClean: the state of one call of a cleaner (a cs record)
    inputDir,   \* Spec: the files of data/input, in the order os.listdir gives
    dirReadable, \* Spec: whether os.listdir of data/input succeeds
    opc,        \* Spec: where main stands
    listed,     \* Spec: the platform being processed has listed its files
    queue,      \* Spec: the files of that platform still to clean
    results,    \* Spec: main's results dict
    discovered, \* Spec: per platform, the files its filter found (history)
    passed,     \* Spec: per platform, the files handed to its cleaner (history)
    cleaned,    \* Spec: per platform, the files its cleaner returned True for (history)
    outDir,     \* Spec: the tables in data/output
    outReports, \* Spec: the reports in data/output
    exitCode,   \* Spec: what main returned
    field,      \* SpecField: a cell under a field rule, pass after pass
    table,      \* SpecSanitize: rows under the row sanitiser, pass after pass
    upload,     \* SpecUpload: the state of one call of upload_to_feishu
    reader      \* SpecRead: the state of one call of read_csv_file

detVars == <<probe, detected>>
mainVars == <<inputDir, dirReadable, opc, listed, queue, results, discovered, passed,
              cleaned, outDir, outReports, exitCode>>
pureVars == <<field, table, upload, reader>>
vars == <<probe, detected, cleaner, inputDir, dirReadable, opc, listed, queue, results,
          discovered, passed, cleaned, outDir, outReports, exitCode, field, table,
          upload, reader>>

-----------------------------------------------------------------------------
(* Bounds of the model *)

\* longest byte sequence of a probed file
MaxBytes == 3

\* most rows handed to upload_to_feishu
MaxRecords == 250

\* most chunks of data lines of a file handed to read_csv_file
MaxChunks == 3
\* most data lines of a cleaned file
MaxRows == 2
\* most preamble lines before the header line of a cleaned file
MaxPreamble == 1
\* most files in the input directory
MaxFiles == 2
\* most tokens of a text given to a field rule
MaxText == 3
\* most passes of a rule over its own result
MaxPasses == 2
\* most rows of a table given to the row sanitiser
MaxTableRows == 3

-----------------------------------------------------------------------------
(* Generic helpers *)

Range(s) == {s[i] : i \in 1..Len(s)}

SeqsUpTo(S, n) == UNION {[1..k -> S] : k \in 0..n}

Min(S) == CHOOSE x \in S : \A y \in S : x <= y

-----------------------------------------------------------------------------
(* Text: Python str operations on sequences of characters *)

\* sub in s
Contains(s, sub) ==
    \E i \in 0..(Len(s) - Len(sub)) : SubSeq(s, i + 1, i + Len(sub)) = sub

\* the characters \s matches and str.strip() removes
Whitespace == {"SP", "NL", "TAB"}

RECURSIVE LStrip(_)
LStrip(s) ==
    IF s # <<>> /\ Head(s) \in Whitespace THEN LStrip(Tail(s)) ELSE s

RECURSIVE RStrip(_)
RStrip(s) ==
    IF s # <<>> /\ s[Len(s)] \in Whitespace
    THEN RStrip(SubSeq(s, 1, Len(s) - 1)) ELSE s

\* s.strip()
Strip(s) == RStrip(LStrip(s))

\* s with every character of the class removed (re.sub('[...]', '', s))
RemoveChars(s, class) == SelectSeq(s, LAMBDA c : c \notin class)

\* a field as a delimited line holds it: in quotes when it has a comma
Quoted(text) ==
    IF \E i \in 1..Len(text) : text[i] = ","
    THEN <<"QUOTE">> \o text \o <<"QUOTE">> ELSE text

RECURSIVE Join(_)
\* the line of the given fields
Join(cells) ==
    IF cells = <<>> THEN <<>>
    ELSE IF Len(cells) = 1 THEN Quoted(cells[1])
    ELSE Quoted(cells[1]) \o <<",">> \o Join(Tail(cells))

RECURSIVE Fields(_, _, _, _)
Fields(line, i, quoted, cur) ==
    IF i > Len(line) THEN <<cur>>
    ELSE CASE line[i] = "QUOTE" -> Fields(line, i + 1, ~quoted, cur)
           [] line[i] = "," /\ ~quoted -> <<cur>> \o Fields(line, i + 1, FALSE, <<>>)
           [] OTHER -> Fields(line, i + 1, quoted, Append(cur, line[i]))

\* the fields of one delimited line: a comma separates two fields unless it
\* stands between quotes
Split(line) == Fields(line, 1, FALSE, <<>>)

\* Names of columns, labels and tokens (pinyin of the source's literals)
JiaoYiShiJian == <<"jiao", "yi", "shi", "jian">>       \* transaction time
JiaoYiLeiXing == <<"jiao", "yi", "lei", "xing">>       \* transaction type
JiaoYiDuiFang == <<"jiao", "yi", "dui", "fang">>       \* counterparty
JinE == <<"jin", "e">>                                 \* amount
JinEYuan == <<"jin", "e", "(", "yuan", ")">>           \* amount(yuan)
ShouZhi == <<"shou", "/", "zhi">>                      \* income/expense
ShouZhiLeiXing == <<"shou", "zhi", "lei", "xing">>     \* income-expense type
LeiXing == <<"lei", "xing">>                           \* type
ShangPin == <<"shang", "pin">>                         \* product
ShangPinMingCheng == <<"shang", "pin", "ming", "cheng">>   \* product name
PingTai == <<"ping", "tai">>                           \* platform
WeiXin == <<"wei", "xin">>                             \* the wechat tag
ZhiChu == <<"zhi", "chu">>                             \* expense
ShouRu == <<"shou", "ru">>                             \* income

-----------------------------------------------------------------------------
(* Values of a table: cells and column labels *)

\* a text value
S(s) == [k |-> "str", s |-> s, n |-> 0]
\* a number, in hundredths
Num(n) == [k |-> "num", s |-> <<>>, n |-> n]
\* a parsed timestamp, by its rank in time
Ts(n) == [k |-> "ts", s |-> <<>>, n |-> n]
NaN == [k |-> "nan", s |-> <<>>, n |-> 0]
NaT == [k |-> "nat", s |-> <<>>, n |-> 0]

IsNull(v) == v.k \in {"nan", "nat"}

\* a DataFrame: its column labels and its rows, each row one cell per column
DataFrame(cols, rows) == [columns |-> cols, rows |-> rows]
EmptyFrame == DataFrame(<<>>, <<>>)

\* name in df.columns
HasColumn(df, name) == \E i \in 1..Len(df.columns) : df.columns[i] = S(name)

\* the position of df[name]
ColIndex(df, name) ==
    Min({i \in 1..Len(df.columns) : df.columns[i] = S(name)})

\* df[name] = values computed per cell
MapColumn(df, name, F(_)) ==
    LET c == ColIndex(df, name)
    IN  [df EXCEPT !.rows =
            [r \in 1..Len(df.rows) |-> [df.rows[r] EXCEPT ![c] = F(df.rows[r][c])]]]

\* df[name] = df[src], a new last column unless name exists
AssignColumn(df, name, V(_)) ==
    IF HasColumn(df, name)
    THEN LET c == ColIndex(df, name)
         IN  [df EXCEPT !.rows =
                [r \in 1..Len(df.rows) |-> [df.rows[r] EXCEPT ![c] = V(df.rows[r])]]]
    ELSE DataFrame(Append(df.columns, S(name)),
                   [r \in 1..Len(df.rows) |-> Append(df.rows[r], V(df.rows[r]))])

\* df.rename(columns={old: new})
RenameColumn(df, old, new) ==
    [df EXCEPT !.columns =
        [i \in 1..Len(df.columns) |->
            IF df.columns[i] = S(old) THEN S(new) ELSE df.columns[i]]]

-----------------------------------------------------------------------------
(* pd.read_csv on decoded lines *)

\* the parse raised
Failure(x) == [exc |-> x, df |-> EmptyFrame]
Parsed(df) == [exc |-> "none", df |-> df]

\* a field of a data line: an empty field is missing
Cell(text) == IF text = <<>> THEN NaN ELSE S(text)

\* Blank lines are skipped; the first line left gives the labels.  A first
\* data line with k fields more than the labels makes its first k fields
\* the index; every line is padded to that width, and a later line wider
\* than that is a tokenizing error.
read_csv(lines) ==
    LET ls == SelectSeq(lines, LAMBDA l : l # <<>>)
    IN  IF ls = <<>> THEN Failure("EmptyDataError")
        ELSE
        LET header == Split(ls[1])
            w == Len(header)
            fields == [i \in 1..(Len(ls) - 1) |-> Split(ls[i + 1])]
            k == IF Len(fields) > 0 /\ Len(fields[1]) > w
                 THEN Len(fields[1]) - w ELSE 0
            row(i) == [c \in 1..w |->
                         IF c + k <= Len(fields[i])
                         THEN Cell(fields[i][c + k]) ELSE NaN]
        IN  IF \E i \in 1..Len(fields) : Len(fields[i]) > w + k
            THEN Failure("ParserError")
            ELSE Parsed(DataFrame([c \in 1..w |-> S(header[c])],
                                  [i \in 1..Len(fields) |-> row(i)]))

-----------------------------------------------------------------------------
(* The codecs behind open(file_path, 'r', encoding=...): what decoding a    *)
(* byte sequence does, "ok" or the exception it raises.  final is the       *)
(* decoder's flag: the input is complete, so a truncated character is an    *)
(* error instead of being kept for the next chunk.                          *)

\* readline() is called this many times on the probed file
ProbeLines == 5

\* the bytes the model builds files from: LF, 'A', C3 96 (U+00D6 in utf-8),
\* D6 D0 (U+4E2D in gbk), E9 (U+00E9 in latin1), FF FE / FE FF (utf-16 BOMs)
ByteAlphabet == {10, 65, 195, 150, 214, 208, 233, 255, 254}

RECURSIVE Utf8Scan(_, _, _)
Utf8Scan(bs, i, final) ==
    IF i > Len(bs) THEN "ok"
    ELSE LET b == bs[i]
             need == CASE b < 128 -> 0
                       [] b >= 194 /\ b <= 223 -> 1
                       [] b >= 224 /\ b <= 239 -> 2
                       [] b >= 240 /\ b <= 244 -> 3
                       [] OTHER -> 4
             lo == CASE b = 224 -> 160 [] b = 240 -> 144 [] OTHER -> 128
             hi == CASE b = 237 -> 159 [] b = 244 -> 143 [] OTHER -> 191
             have == IF Len(bs) - i < need THEN Len(bs) - i ELSE need
             contOk == \A k \in 1..have :
                          IF k = 1 THEN bs[i + 1] >= lo /\ bs[i + 1] <= hi
                          ELSE bs[i + k] >= 128 /\ bs[i + k] <= 191
         IN  IF need = 4 THEN "UnicodeDecodeError"
             ELSE IF ~contOk THEN "UnicodeDecodeError"
             ELSE IF have < need
                  THEN (IF final THEN "UnicodeDecodeError" ELSE "ok")
             ELSE Utf8Scan(bs, i + need + 1, final)

\* the assigned two-byte areas of the gbk code table
GbkPair(b, c) ==
    CASE b >= 129 /\ b <= 160 -> c >= 64 /\ c <= 254 /\ c # 127
      [] b >= 176 /\ b <= 247 -> c >= 64 /\ c <= 254 /\ c # 127
      [] b >= 170 /\ b <= 253 -> c >= 64 /\ c <= 160 /\ c # 127
      [] b = 254 -> c >= 64 /\ c <= 79
      [] OTHER -> FALSE

RECURSIVE GbkScan(_, _, _)
GbkScan(bs, i, final) ==
    IF i > Len(bs) THEN "ok"
    ELSE LET b == bs[i]
         IN  IF b < 128 THEN GbkScan(bs, i + 1, final)
             ELSE IF b < 129 \/ b > 254 THEN "UnicodeDecodeError"
             ELSE IF i + 1 > Len(bs)
                  THEN (IF final THEN "UnicodeDecodeError" ELSE "ok")
             ELSE IF ~GbkPair(b, bs[i + 1]) THEN "UnicodeDecodeError"
             ELSE GbkScan(bs, i + 2, final)

\* the 16-bit code unit at bytes i, i+1
Utf16Unit(bs, i, le) ==
    IF le THEN bs[i] + 256 * bs[i + 1] ELSE 256 * bs[i] + bs[i + 1]

RECURSIVE Utf16Units(_, _, _, _)
Utf16Units(bs, i, le, final) ==
    IF i > Len(bs) THEN "ok"
    ELSE IF i + 1 > Len(bs)
         THEN (IF final THEN "UnicodeDecodeError" ELSE "ok")
    ELSE LET u == Utf16Unit(bs, i, le)
         IN  IF u >= 55296 /\ u <= 56319
             THEN IF i + 3 > Len(bs)
                  THEN (IF final THEN "UnicodeDecodeError" ELSE "ok")
                  ELSE LET v == Utf16Unit(bs, i + 2, le)
                       IN  IF v >= 56320 /\ v <= 57343
                           THEN Utf16Units(bs, i + 4, le, final)
                           ELSE "UnicodeDecodeError"
             ELSE IF u >= 56320 /\ u <= 57343 THEN "UnicodeDecodeError"
             ELSE Utf16Units(bs, i + 2, le, final)

\* encodings/utf_16.py: the incremental decoder behind encoding='utf-16'
\* wants a byte order mark; a stream that has two bytes and no mark raises
\* UnicodeError, which is not a UnicodeDecodeError.
Utf16Scan(bs, final) ==
    IF Len(bs) < 2
    THEN (IF final /\ Len(bs) = 1 THEN "UnicodeDecodeError" ELSE "ok")
    ELSE IF bs[1] = 255 /\ bs[2] = 254 THEN Utf16Units(bs, 3, TRUE, final)
    ELSE IF bs[1] = 254 /\ bs[2] = 255 THEN Utf16Units(bs, 3, FALSE, final)
    ELSE "UnicodeError"

Decode(bs, enc, final) ==
    CASE enc = "utf-8" -> Utf8Scan(bs, 1, final)
      [] enc = "gbk" -> GbkScan(bs, 1, final)
      [] enc = "utf-16" -> Utf16Scan(bs, final)
      [] enc = "latin1" -> "ok"

\* line ends in the decoded text
CountLines(bs, enc) ==
    IF enc = "utf-16"
    THEN IF Len(bs) < 2 THEN 0
         ELSE Cardinality({i \in 3..Len(bs) - 1 :
                 /\ i % 2 = 1
                 /\ Utf16Unit(bs, i, bs[1] = 255) \in {10, 13}})
    ELSE Cardinality({i \in 1..Len(bs) : bs[i] = 10})

\* with open(..., encoding) as f: five times f.readline().  The file is one
\* chunk: it is decoded whole with final unset, and the decoder is told the
\* input has ended only when a readline() runs out of decoded lines.
ProbeOutcome(bs, enc) ==
    LET r == Decode(bs, enc, FALSE)
    IN  IF r # "ok" THEN r
        ELSE IF CountLines(bs, enc) >= ProbeLines THEN "ok"
        ELSE Decode(bs, enc, TRUE)

\* f.readlines(): the whole file, to its end
ReadAllOutcome(bs, enc) ==
    LET r == Decode(bs, enc, FALSE)
    IN  IF r # "ok" THEN r ELSE Decode(bs, enc, TRUE)

-----------------------------------------------------------------------------
(* detect_file_encoding *)

encodings == <<"utf-8", "gbk", "utf-16", "latin1">>

Returned(e) == [raised |-> "none", enc |-> e]
Raised(x) == [raised |-> x, enc |-> "none"]

RECURSIVE DetectFrom(_, _)
DetectFrom(bs, i) ==
    IF i > Len(encodings) THEN Returned("utf-8")
    ELSE LET r == ProbeOutcome(bs, encodings[i])
         IN  CASE r = "ok" -> Returned(encodings[i])
               [] r = "UnicodeDecodeError" -> DetectFrom(bs, i + 1)
               [] OTHER -> Raised(r)

detect_file_encoding(bs) == DetectFrom(bs, 1)

-----------------------------------------------------------------------------
(* The two cleaners, clean_alipay_bill and clean_wechat_bill, stage by      *)
(* stage.  cs is the state of one call: its arguments, its locals, the      *)
(* output directory it writes to, and where it stands.                      *)

Platforms == {"alipay", "wechat"}

\* os.path.splitext(file_path)[1].lower()
Lower(ext) ==
    CASE ext = ".CSV" -> ".csv"
      [] ext = ".XLSX" -> ".xlsx"
      [] OTHER -> ext

\* the tokens a header line must contain
HeaderTokens(p) ==
    IF p = "alipay" THEN <<JiaoYiShiJian, JiaoYiLeiXing, JiaoYiDuiFang>>
    ELSE <<JiaoYiShiJian, JiaoYiLeiXing>>

required_columns(p) ==
    IF p = "alipay" THEN <<JiaoYiShiJian, JiaoYiDuiFang, JinE>>
    ELSE <<JiaoYiShiJian, JiaoYiLeiXing, JinEYuan>>

\* the column holding the amount in the raw table
AmountColumn(p) == IF p = "alipay" THEN JinE ELSE JinEYuan

\* header_index is None
None == -1

CleanerStart(p, file, fs, reports, ioFail) ==
    [pc |-> "start", platform |-> p, file |-> file, ioFail |-> ioFail,
     logDir |-> TRUE, enc |-> "none", lines |-> <<>>, header_index |-> None,
     valid_lines |-> <<>>, df |-> EmptyFrame, missing |-> <<>>, advice |-> {},
     cleaned_rows |-> 0, deduplicated_rows |-> 0,
     fs |-> fs, reports |-> reports,
     result |-> "pending", exc |-> "none", failedAt |-> "none"]

\* an exception leaves the try block for the except clause
Raise(cs, x) == [cs EXCEPT !.exc = x, !.failedAt = cs.pc, !.pc = "except"]

\* return False / return True
Return(cs, r) == [cs EXCEPT !.result = r, !.pc = "done"]

\* setup_log_directory, the output directory, detect_file_encoding
DetectEncoding(cs) ==
    LET d == detect_file_encoding(cs.file.raw)
    IN  IF d.raised # "none" THEN Raise(cs, d.raised)
        ELSE [cs EXCEPT !.enc = d.enc, !.pc = "format"]

\* file_ext and the branch on it
\* a variant of CheckFormat that reads a file of any extension as CSV; C6
\* tells it from the code
CheckFormat_any_extension(cs) == [cs EXCEPT !.pc = "read"]

CheckFormat(cs) ==
    LET file_ext == Lower(cs.file.ext)
    IN  IF cs.platform = "alipay"
        THEN CASE file_ext = ".csv" -> [cs EXCEPT !.pc = "read"]
               [] file_ext \in {".xls", ".xlsx"} -> [cs EXCEPT !.pc = "excel"]
               [] OTHER -> Return(cs, "False")
        ELSE IF file_ext # ".csv" THEN Return(cs, "False")
             ELSE [cs EXCEPT !.pc = "read"]

\* with open(file_path, 'r', encoding=encoding) as f: lines = f.readlines()
ReadLines(cs) ==
    LET r == ReadAllOutcome(cs.file.raw, cs.enc)
    IN  IF r # "ok" THEN Raise(cs, r)
        ELSE [cs EXCEPT !.lines = cs.file.lines, !.pc = "locate"]

\* the loop over enumerate(lines): the index (from 0) of the first line that
\* contains every token, None when no line does
\* a variant of locate_header that keeps looping after a match, and so ends
\* on the last matching line; C8 tells it from the code
locate_header_last_match(lines, tokens) ==
    LET hits == {i \in 1..Len(lines) :
                    \A t \in 1..Len(tokens) : Contains(lines[i], tokens[t])}
    IN  IF hits = {} THEN None ELSE (CHOOSE x \in hits : \A y \in hits : y <= x) - 1

locate_header(lines, tokens) ==
    LET hits == {i \in 1..Len(lines) :
                    \A t \in 1..Len(tokens) : Contains(lines[i], tokens[t])}
    IN  IF hits = {} THEN None ELSE Min(hits) - 1

LocateHeader(cs) ==
    [cs EXCEPT !.header_index = locate_header(cs.lines, HeaderTokens(cs.platform)),
               !.pc = "parse"]

\* lines[header_index:], or the file as it is
valid_lines(lines, header_index) ==
    IF header_index # None
    THEN SubSeq(lines, header_index + 1, Len(lines))
    ELSE lines

ParseTable(cs) ==
    LET text == valid_lines(cs.lines, cs.header_index)
        r == read_csv(text)
    IN  IF r.exc # "none" THEN Raise([cs EXCEPT !.valid_lines = text], r.exc)
        ELSE [cs EXCEPT !.valid_lines = text, !.df = r.df, !.pc = "columns"]

\* df = pd.read_excel(file_path): the sheet's first row gives the labels, a
\* text cell as text and a numeric cell as a number
ReadExcel(cs) == [cs EXCEPT !.df = cs.file.sheet, !.pc = "columns"]

\* df.columns.str.strip().str.replace('\n', ''): the .str accessor of an
\* index without any text label raises; a label that is not text becomes NaN
strip_columns(columns) ==
    [i \in 1..Len(columns) |->
        IF columns[i].k = "str"
        THEN S(RemoveChars(Strip(columns[i].s), {"NL"}))
        ELSE NaN]

CleanColumnNames(cs) ==
    IF cs.df.columns # <<>> /\ \A i \in 1..Len(cs.df.columns) : cs.df.columns[i].k # "str"
    THEN Raise(cs, "AttributeError")
    ELSE [cs EXCEPT !.df.columns = strip_columns(cs.df.columns), !.pc = "reconcile"]

\* [col for col in required_columns if col not in df.columns]
missing_columns(p, df) ==
    SelectSeq(required_columns(p), LAMBDA col : ~HasColumn(df, col))

\* [col for col in df.columns if missing_col in col or col in missing_col]
similar_cols(df, missing_col) ==
    SelectSeq(df.columns,
              LAMBDA col : Contains(col.s, missing_col) \/ Contains(missing_col, col.s))

\* The check of the required columns.  "missing_col in col" on a label that
\* is NaN is a TypeError.  The candidates are logged; df is not touched.
ReconcileSchema(cs) ==
    LET missing == missing_columns(cs.platform, cs.df)
    IN  IF missing # <<>> /\ \E i \in 1..Len(cs.df.columns) : cs.df.columns[i].k # "str"
        THEN Raise([cs EXCEPT !.missing = missing], "TypeError")
        ELSE [cs EXCEPT
                !.missing = missing,
                !.advice = {<<missing[m], similar_cols(cs.df, missing[m])>> :
                              m \in {j \in 1..Len(missing) :
                                        similar_cols(cs.df, missing[j]) # <<>>}},
                !.pc = "normalize"]

-----------------------------------------------------------------------------
(* Field normalisation *)

\* the texts of the timestamps in the modelled files, earliest first; a
\* timestamp text is one token
TimeTexts == <<"t1", "t2", "t3">>

\* pd.to_datetime(value, errors='coerce')
\* A timestamp stays what it is, a text is parsed, a number counts the
\* nanoseconds since the epoch (a time before every modelled text).
to_datetime(v) ==
    CASE v.k = "ts" -> v
      [] v.k = "str" ->
            IF \E n \in 1..Len(TimeTexts) : v.s = <<TimeTexts[n]>>
            THEN Ts(CHOOSE n \in 1..Len(TimeTexts) : v.s = <<TimeTexts[n]>>)
            ELSE NaT
      [] v.k = "num" -> Ts(0)
      [] OTHER -> NaT

Digits == <<"0", "1", "2", "3", "4", "5", "6", "7", "8", "9">>

IsDigit(c) == \E d \in 1..Len(Digits) : Digits[d] = c
DigitValue(c) == (CHOOSE d \in 1..Len(Digits) : Digits[d] = c) - 1

RECURSIVE DigitsValue(_)
\* the value of a run of digits
DigitsValue(ds) ==
    IF ds = <<>> THEN 0
    ELSE 10 * DigitsValue(SubSeq(ds, 1, Len(ds) - 1)) + DigitValue(ds[Len(ds)])

\* sign, digits, at most one point, at least one digit
IsNumberText(s) ==
    LET body == IF s # <<>> /\ Head(s) = "-" THEN Tail(s) ELSE s
        points == {i \in 1..Len(body) : body[i] = "."}
    IN  /\ Cardinality(points) <= 1
        /\ \A i \in 1..Len(body) : i \in points \/ IsDigit(body[i])
        /\ Len(body) > Cardinality(points)

\* the number a text denotes, in hundredths (the modelled amounts have at
\* most two decimals)
NumberValue(s) ==
    LET neg == Head(s) = "-"
        body == IF neg THEN Tail(s) ELSE s
        points == {i \in 1..Len(body) : body[i] = "."}
        p == IF points = {} THEN Len(body) + 1 ELSE CHOOSE i \in points : TRUE
        int == SubSeq(body, 1, p - 1)
        frac == SubSeq(body, p + 1, Len(body))
        cents == CASE Len(frac) = 0 -> 0
                   [] Len(frac) = 1 -> 10 * DigitsValue(frac)
                   [] OTHER -> DigitsValue(SubSeq(frac, 1, 2))
        v == 100 * DigitsValue(int) + cents
    IN  IF neg THEN 0 - v ELSE v

RECURSIVE DigitsOf(_)
\* the decimal digits of a natural number
DigitsOf(k) ==
    IF k < 10 THEN <<Digits[k + 1]>>
    ELSE Append(DigitsOf(k \div 10), Digits[(k % 10) + 1])

\* a variant of NumberText that prints one decimal only; C13 tells it from
\* the code
NumberText_one_decimal(n) ==
    LET a == IF n < 0 THEN 0 - n ELSE n
    IN  (IF n < 0 THEN <<"-">> ELSE <<>>) \o DigitsOf(a \div 100) \o <<".">>
            \o <<Digits[((a % 100) \div 10) + 1]>>

\* str(x) of a float, given in hundredths: 12.5, 12.0, 12.05
NumberText(n) ==
    LET a == IF n < 0 THEN 0 - n ELSE n
        frac == a % 100
    IN  (IF n < 0 THEN <<"-">> ELSE <<>>) \o DigitsOf(a \div 100) \o <<".">>
            \o (IF frac % 10 = 0 THEN <<Digits[(frac \div 10) + 1]>>
                ELSE <<Digits[(frac \div 10) + 1], Digits[(frac % 10) + 1]>>)

\* .astype(str) of a cell
astype_str(v) ==
    CASE v.k = "str" -> v.s
      [] v.k = "num" -> NumberText(v.n)
      [] v.k = "ts" -> <<TimeTexts[IF v.n \in 1..Len(TimeTexts) THEN v.n ELSE 1]>>
      [] v.k = "nat" -> <<"N", "a", "T">>
      [] OTHER -> <<"n", "a", "n">>

\* .astype(str).str.replace('[YEN,\s]', '', regex=True), then
\* pd.to_numeric(..., errors='coerce'): what is left of the text is parsed,
\* and a text that is no number ("nan" of a missing value too) gives NaN
to_numeric(v) ==
    LET t == RemoveChars(astype_str(v), {"YEN", ","} \cup Whitespace)
    IN  IF IsNumberText(t) THEN Num(NumberValue(t)) ELSE NaN

\* the .str accessor works on a column of dtype object: one without rows, or
\* with a text in it that read_csv did not take for a number
HasStrAccessor(df, name) ==
    LET c == ColIndex(df, name)
    IN  \/ df.rows = <<>>
        \/ \E r \in 1..Len(df.rows) :
              df.rows[r][c].k = "str" /\ ~IsNumberText(df.rows[r][c].s)

\* df[name].str.replace(old, new) with old = new: a text stays what it is
str_replace_same(v) == IF v.k = "str" THEN v ELSE NaN

normalize_datetime(df) ==
    IF HasColumn(df, JiaoYiShiJian)
    THEN MapColumn(df, JiaoYiShiJian, to_datetime) ELSE df

normalize_amount(p, df) ==
    IF HasColumn(df, AmountColumn(p))
    THEN LET d == MapColumn(df, AmountColumn(p), to_numeric)
         IN  IF p = "wechat" THEN RenameColumn(d, JinEYuan, JinE) ELSE d
    ELSE df

\* alipay: the direction column is taken from an alias when it is absent
alipay_direction(df) ==
    IF ~HasColumn(df, ShouZhi)
       /\ (HasColumn(df, ShouZhiLeiXing) \/ HasColumn(df, LeiXing))
    THEN LET src == IF HasColumn(df, ShouZhiLeiXing) THEN ShouZhiLeiXing ELSE LeiXing
         IN  AssignColumn(df, ShouZhi, LAMBDA row : row[ColIndex(df, src)])
    ELSE df

\* wechat: the direction labels are replaced by themselves
wechat_direction(df) ==
    IF HasColumn(df, ShouZhi) THEN MapColumn(df, ShouZhi, str_replace_same) ELSE df

\* wechat: the product column under its long name
wechat_product(df) ==
    IF HasColumn(df, ShangPin) /\ ~HasColumn(df, ShangPinMingCheng)
    THEN RenameColumn(df, ShangPin, ShangPinMingCheng) ELSE df

NormalizeFields(cs) ==
    LET d1 == normalize_amount(cs.platform, normalize_datetime(cs.df))
    IN  IF cs.platform = "alipay"
        THEN [cs EXCEPT !.df = alipay_direction(d1), !.pc = "sanitize"]
        ELSE IF HasColumn(d1, ShouZhi) /\ ~HasStrAccessor(d1, ShouZhi)
             THEN Raise([cs EXCEPT !.df = d1], "AttributeError")
             ELSE [cs EXCEPT !.df = wechat_product(wechat_direction(d1)),
                             !.pc = "sanitize"]

-----------------------------------------------------------------------------
(* Row sanitising *)

\* a variant of dropna_all that drops a row with any missing cell
\* (how='any'); C16 tells it from the code
dropna_any(rows) ==
    SelectSeq(rows, LAMBDA row : \A c \in 1..Len(row) : ~IsNull(row[c]))

\* df.dropna(how='all')
dropna_all(rows) ==
    SelectSeq(rows, LAMBDA row : \E c \in 1..Len(row) : ~IsNull(row[c]))

RECURSIVE drop_duplicates(_)
\* df.drop_duplicates(): the first of equal rows stays
drop_duplicates(rows) ==
    IF rows = <<>> THEN <<>>
    ELSE LET init == drop_duplicates(SubSeq(rows, 1, Len(rows) - 1))
             last == rows[Len(rows)]
         IN  IF \E i \in 1..Len(init) : init[i] = last THEN init
             ELSE Append(init, last)

\* a variant of TimeBefore that puts a missing time first; C15 tells it
\* from the code
TimeBefore_nulls_first(a, b) == ~IsNull(b) /\ (IsNull(a) \/ a.n < b.n)

\* a missing time sorts after every time (na_position='last')
TimeBefore(a, b) == ~IsNull(a) /\ (IsNull(b) \/ a.n < b.n)

RECURSIVE sort_values(_, _)
\* df.sort_values(by=column c), ascending, with the rows of equal time in
\* the order they had: one of the orders sort_orders allows.  Nothing
\* stated of a call of a cleaner reads the order of rows of equal time.
sort_values(rows, c) ==
    IF rows = <<>> THEN <<>>
    ELSE LET init == sort_values(SubSeq(rows, 1, Len(rows) - 1), c)
             last == rows[Len(rows)]
             keep == Cardinality({i \in 1..Len(init) : ~TimeBefore(last[c], init[i][c])})
         IN  SubSeq(init, 1, keep) \o <<last>> \o SubSeq(init, keep + 1, Len(init))

\* the permutations of 1..n
Perms(n) == {f \in [1..n -> 1..n] : \A i, j \in 1..n : i # j => f[i] # f[j]}

\* df.sort_values(by=column c) with its default kind='quicksort', which is
\* not a stable sort: the rows come out by ascending time, the rows of equal
\* time in an order the sort does not promise, the rows without a time
\* last and in the order they had (they are set apart before the sort)
sort_orders(rows, c) ==
    LET n == Len(rows)
        allowed ==
            {f \in Perms(n) :
                \A i, j \in 1..n :
                    i < j =>
                        /\ ~TimeBefore(rows[f[j]][c], rows[f[i]][c])
                        /\ IsNull(rows[f[i]][c]) /\ IsNull(rows[f[j]][c]) => f[i] < f[j]}
    IN  {[i \in 1..n |-> rows[f[i]]] : f \in allowed}

\* a variant of SanitizeRows that counts the duplicates from the length of
\* the table before the empty rows were dropped; C23 tells it from the code
SanitizeRows_counted_from_parsed(cs) ==
    LET r0 == cs.df.rows
        r1 == dropna_all(r0)
        r2 == drop_duplicates(r1)
        r3 == IF HasColumn(cs.df, JiaoYiShiJian)
              THEN sort_values(r2, ColIndex(cs.df, JiaoYiShiJian)) ELSE r2
    IN  [cs EXCEPT !.df.rows = r3,
                   !.cleaned_rows = Len(r0) - Len(r1),
                   !.deduplicated_rows = Len(r0) - Len(r2),
                   !.pc = "write"]

SanitizeRows(cs) ==
    LET r0 == cs.df.rows
        r1 == dropna_all(r0)
        r2 == drop_duplicates(r1)
        r3 == IF HasColumn(cs.df, JiaoYiShiJian)
              THEN sort_values(r2, ColIndex(cs.df, JiaoYiShiJian)) ELSE r2
    IN  [cs EXCEPT !.df.rows = r3,
                   !.cleaned_rows = Len(r0) - Len(r1),
                   !.deduplicated_rows = Len(r1) - Len(r2),
                   !.pc = "write"]

-----------------------------------------------------------------------------
(* Output *)

\* df['platform'] = 'wechat': only clean_wechat_bill has this statement
tag_platform(p, df) ==
    IF p = "wechat" THEN AssignColumn(df, PingTai, LAMBDA row : S(WeiXin)) ELSE df

\* f"{platform}_{stem}_processed.csv"
output_name(p, file) == [platform |-> p, stem |-> file.stem]

\* df.to_csv(output_path, index=False): the file of that name is replaced
to_csv(fs, name, df) ==
    {f \in fs : f.name # name} \cup {[name |-> name, df |-> df]}

\* a variant of WriteOutput that goes on to the report with no file written;
\* C4 tells it from the code
WriteOutput_nothing_written(cs) ==
    [cs EXCEPT !.df = tag_platform(cs.platform, cs.df), !.pc = "report"]

WriteOutput(cs) ==
    LET df == tag_platform(cs.platform, cs.df)
    IN  IF cs.ioFail = "output" THEN Raise([cs EXCEPT !.df = df], "OSError")
        ELSE [cs EXCEPT !.df = df,
                        !.fs = to_csv(cs.fs, output_name(cs.platform, cs.file), df),
                        !.pc = "report"]

\* generate_report catches what it raises; then return True
ReportAndReturn(cs) ==
    Return([cs EXCEPT !.reports =
                IF cs.ioFail = "report" THEN cs.reports
                ELSE cs.reports \cup {cs.platform}],
           "True")

\* except Exception as e: ... return False
HandleException(cs) == Return(cs, "False")

\* one stage of a call
CleanStep(cs) ==
    CASE cs.pc = "start" -> DetectEncoding(cs)
      [] cs.pc = "format" -> CheckFormat(cs)
      [] cs.pc = "read" -> ReadLines(cs)
      [] cs.pc = "locate" -> LocateHeader(cs)
      [] cs.pc = "parse" -> ParseTable(cs)
      [] cs.pc = "excel" -> ReadExcel(cs)
      [] cs.pc = "columns" -> CleanColumnNames(cs)
      [] cs.pc = "reconcile" -> ReconcileSchema(cs)
      [] cs.pc = "normalize" -> NormalizeFields(cs)
      [] cs.pc = "sanitize" -> SanitizeRows(cs)
      [] cs.pc = "write" -> WriteOutput(cs)
      [] cs.pc = "report" -> ReportAndReturn(cs)
      [] cs.pc = "except" -> HandleException(cs)
      [] OTHER -> cs

RECURSIVE CleanRun(_)
\* a whole call, to its return
CleanRun(cs) == IF cs.pc = "done" THEN cs ELSE CleanRun(CleanStep(cs))

-----------------------------------------------------------------------------
(* The input files of the model *)

File(stem, ext, raw, lines, sheet) ==
    [stem |-> stem, ext |-> ext, raw |-> raw, lines |-> lines, sheet |-> sheet]

Stem(prefix, id) == [prefix |-> prefix, id |-> id]

\* The bytes of a file that decide what the codecs do with it.
RawAscii == <<65>>                          \* utf-8
RawUtf8 == <<195, 150>>                     \* utf-8 (and gbk)
RawGbk == <<214, 208>>                      \* gbk, not utf-8
RawUtf16 == <<255, 254>>                    \* utf-16 with its byte order mark
RawLatin1 == <<233, 10>>                    \* latin1 only, no byte order mark
RawCutShort == <<10, 10, 10, 10, 10, 214>>  \* five lines, then half a character
RawSamples == {RawAscii, RawUtf8, RawGbk, RawUtf16, RawLatin1, RawCutShort}

Extensions == {".csv", ".CSV", ".xls", ".xlsx", ".txt", ""}

\* the header lines of the modelled exports, as their fields
HeaderChoices(p) ==
    IF p = "alipay"
    THEN {<<JiaoYiShiJian, JiaoYiLeiXing, JiaoYiDuiFang, JinE, ShouZhi>>,
          <<JiaoYiShiJian, JiaoYiLeiXing, JiaoYiDuiFang>>,
          <<JiaoYiShiJian \o <<"SP">>, JiaoYiLeiXing,
            JiaoYiDuiFang \o <<"ming", "cheng">>, <<"SP">> \o JinE>>,
          <<JinE, LeiXing>>,
          <<JiaoYiLeiXing, JinE>>}
    ELSE {<<JiaoYiShiJian, JiaoYiLeiXing, JiaoYiDuiFang, ShangPin, ShouZhi, JinEYuan>>,
          <<JiaoYiShiJian, JiaoYiLeiXing, JinE>>,
          <<JiaoYiLeiXing, ShangPin>>}

\* "hdr" is the header line once more, among the data lines
RowKinds == {"a", "b", "c", "blank", "hdr"}

\* the field a data line of a kind has under a label
RowField(label, kind) ==
    LET name == Strip(label)
    IN  CASE kind = "blank" -> <<>>
          [] Contains(name, JiaoYiShiJian) ->
                (CASE kind = "a" -> <<"t2">> [] kind = "b" -> <<"t1">> [] OTHER -> <<>>)
          [] Contains(name, JinE) ->
                (CASE kind = "a" -> <<"YEN", "1", ",", "2", "3", "4", ".", "5", "6">>
                   [] kind = "b" -> <<"1", "2", ".", "5">>
                   [] OTHER -> <<"a", "b", "c">>)
          [] name \in {ShouZhi, LeiXing, ShouZhiLeiXing} ->
                (CASE kind = "a" -> ZhiChu [] kind = "b" -> ShouRu [] OTHER -> <<"/">>)
          [] OTHER -> (IF kind = "b" THEN <<"y">> ELSE <<"x">>)

\* "void" is a line without a character
DataLine(header, kind) ==
    IF kind = "hdr" THEN Join(header)
    ELSE IF kind = "void" THEN <<>>
    ELSE Join([c \in 1..Len(header) |-> RowField(header[c], kind)])

PreambleLine == <<"zhang", "dan", "ming", "xi">>

\* a delimited export: preamble lines, the header line, the data lines
CsvLines(n, header, kinds) ==
    [i \in 1..n |-> PreambleLine] \o <<Join(header)>>
        \o [i \in 1..Len(kinds) |-> DataLine(header, kinds[i])]

NoSheet == EmptyFrame

CsvFile(stem, ext, raw, lines) == File(stem, ext, raw, lines, NoSheet)

\* the sheets of the modelled workbooks: labels, and one row or none.  A
\* header cell that holds a number is a numeric label.
SheetChoices ==
    LET labels == {<<S(JiaoYiShiJian), S(JiaoYiDuiFang), S(JinE)>>,
                   <<S(JiaoYiShiJian), S(JinE)>>,
                   <<S(JiaoYiShiJian), Num(202400)>>,
                   <<Num(100), Num(200)>>}
        row(ls) == [c \in 1..Len(ls) |-> IF ls[c] = S(JiaoYiShiJian) THEN Ts(1) ELSE Num(500)]
    IN  {DataFrame(ls, rows) : ls \in labels, rows \in {<<>>}} \cup
        {DataFrame(ls, <<row(ls)>>) : ls \in labels}

PlainHeader(p) ==
    IF p = "alipay"
    THEN <<JiaoYiShiJian, JiaoYiLeiXing, JiaoYiDuiFang, JinE, ShouZhi>>
    ELSE <<JiaoYiShiJian, JiaoYiLeiXing, JiaoYiDuiFang, ShangPin, ShouZhi, JinEYuan>>

Prefix(p) == IF p = "alipay" THEN "alipay" ELSE "weixinzhifuzhangdan"

\* what can go wrong with the output directory
IoFailures == {"none", "output", "report"}

\* five data lines, one empty (commas only, or no character at all) and
\* one the copy of another
ScenarioRows ==
    {<<"a", "blank", "b", "a", "c">>,
     <<"c", "b", "b", "blank", "a">>,
     <<"a", "void", "b", "a", "c">>}

\* the calls of a cleaner the model makes
CleanerCalls ==
    \* delimited files in every shape
    {CleanerStart(p, CsvFile(Stem(Prefix(p), 1), ".csv", RawAscii, CsvLines(n, h, ks)),
                  {}, {}, "none") :
        p \in {"alipay"}, n \in 0..MaxPreamble, h \in HeaderChoices("alipay"),
        ks \in SeqsUpTo(RowKinds, MaxRows)}
    \cup
    {CleanerStart(p, CsvFile(Stem(Prefix(p), 1), ".csv", RawAscii, CsvLines(n, h, ks)),
                  {}, {}, "none") :
        p \in {"wechat"}, n \in 0..MaxPreamble, h \in HeaderChoices("wechat"),
        ks \in SeqsUpTo(RowKinds, MaxRows)}
    \cup
    \* an empty file
    {CleanerStart(p, CsvFile(Stem(Prefix(p), 1), ".csv", <<>>, <<>>), {}, {}, "none") :
        p \in Platforms}
    \cup
    \* every encoding, extension and failure of the output directory
    {CleanerStart(p, CsvFile(Stem(Prefix(p), 1), e, raw,
                             CsvLines(1, PlainHeader(p), <<"a">>)), {}, {}, io) :
        p \in Platforms, e \in Extensions, raw \in RawSamples, io \in IoFailures}
    \cup
    \* exports with three preamble lines and five data lines, one of them
    \* empty and one the copy of another
    {CleanerStart(p, CsvFile(Stem(Prefix(p), 1), ".csv", RawAscii,
                             CsvLines(3, PlainHeader(p), ks)), {}, {}, "none") :
        p \in Platforms, ks \in ScenarioRows}
    \cup
    \* workbooks
    {CleanerStart(p, File(Stem(Prefix(p), 1), e, RawAscii, <<>>, sh), {}, {}, "none") :
        p \in Platforms, e \in {".xls", ".xlsx"}, sh \in SheetChoices}

IdleCleaner ==
    [CleanerStart("alipay", CsvFile(Stem("alipay", 0), ".csv", <<>>, <<>>), {}, {}, "none")
        EXCEPT !.pc = "idle"]

-----------------------------------------------------------------------------
(* The variables of the specifications of single rules, while another runs *)

FieldIdle ==
    [rule |-> "none", raw |-> NaN, value |-> NaN, once |-> NaN, passes |-> 0]

TableIdle ==
    [hasTime |-> FALSE, input |-> <<>>, rows |-> <<>>, first |-> <<>>,
     stage |-> "idle", pass |-> 0]

UploadIdle ==
    [total |-> 0, i |-> 0, sent |-> <<>>, uploaded_records |-> 0,
     result |-> "pending", pc |-> "idle"]

ReaderIdle ==
    [file |-> <<>>, e |-> 1, k |-> 0, data |-> <<>>, enc |-> "none",
     result |-> <<>>, pc |-> "idle"]

FeishuIdle == upload = UploadIdle /\ reader = ReaderIdle

PureIdle == field = FieldIdle /\ table = TableIdle /\ FeishuIdle

-----------------------------------------------------------------------------
(* The orchestrator: bill_processor_integrated.py *)

PlatformNames == {"alipay", "wechat", "jingdong"}

\* results = {alipay: None, wechat: None, jingdong: None}
NoResults == [k \in PlatformNames |-> "None"]

\* results[merge] = r
with_merge(res, r) ==
    [k \in PlatformNames \cup {"merge"} |-> IF k = "merge" THEN r ELSE res[k]]

NoHistory == [k \in PlatformNames |-> {}]

\* the variables of main while another specification runs
MainIdle ==
    /\ inputDir = <<>>
    /\ dirReadable = TRUE
    /\ opc = "idle"
    /\ listed = FALSE
    /\ queue = <<>>
    /\ results = NoResults
    /\ discovered = NoHistory
    /\ passed = NoHistory
    /\ cleaned = NoHistory
    /\ outDir = {}
    /\ outReports = {}
    /\ exitCode = -1

\* f.startswith(prefix) and f.endswith(one of the extensions)
Matches(p, file) ==
    CASE p = "alipay" ->
            file.stem.prefix = "alipay" /\ file.ext \in {".csv", ".xls", ".xlsx"}
      [] p = "wechat" ->
            file.stem.prefix = "weixinzhifuzhangdan" /\ file.ext = ".csv"
      [] p = "jingdong" ->
            file.stem.prefix = "jingdong" /\ file.ext \in {".csv", ".xls", ".xlsx"}

\* [f for f in os.listdir(input_dir) if ...]
platform_files(p, dir) == SelectSeq(dir, LAMBDA f : Matches(p, f))

FileName(file) == [stem |-> file.stem, ext |-> file.ext]

\* the platform main runs after p
NextPlatform(p) ==
    CASE p = "alipay" -> "wechat"
      [] p = "wechat" -> "jingdong"
      [] p = "jingdong" -> "merge"

\* what clean_jingdong_bill (data/clean_jingdong_bill.py) can do with a file
clean_jingdong_bill_outcomes == {"True", "False", "raise"}

\* what merge_bills (data/clean_merge_bill.py) can return
merge_bills_outcomes == {"True", "False"}

\* process_<platform>_bills up to the loop: the listing and the early
\* returns, as the values main's variables take
listing(p) ==
    IF ~dirReadable
    THEN [results |-> [results EXCEPT ![p] = "False"], opc |-> NextPlatform(p),
          listed |-> FALSE, queue |-> <<>>, discovered |-> discovered]
    ELSE LET files == platform_files(p, inputDir)
             found == [discovered EXCEPT ![p] = {FileName(f) : f \in Range(files)}]
         IN  IF files = <<>>
             THEN [results |-> [results EXCEPT ![p] = "None"], opc |-> NextPlatform(p),
                   listed |-> FALSE, queue |-> <<>>, discovered |-> found]
             ELSE [results |-> results, opc |-> p,
                   listed |-> TRUE, queue |-> files, discovered |-> found]

\* a variant of loop_turn that goes on to the next file after a failure
\* and returns what the cleaner returned for the last file; C22 tells it
\* from the code
loop_turn_last_result(p, result) ==
    IF Tail(queue) # <<>>
    THEN [results |-> results, opc |-> p, listed |-> TRUE, queue |-> Tail(queue)]
    ELSE [results |-> [results EXCEPT ![p] = IF result = "True" THEN "True" ELSE "False"],
          opc |-> NextPlatform(p), listed |-> FALSE, queue |-> <<>>]

\* one turn of the loop over the files, result being what the cleaner
\* returned ("raise" when it raised)
loop_turn(p, result) ==
    IF result = "True" /\ Tail(queue) # <<>>
    THEN [results |-> results, opc |-> p, listed |-> TRUE, queue |-> Tail(queue)]
    ELSE [results |-> [results EXCEPT ![p] = IF result = "True" THEN "True" ELSE "False"],
          opc |-> NextPlatform(p), listed |-> FALSE, queue |-> <<>>]

\* the call of clean_alipay_bill or clean_wechat_bill on the next file
clean_file(p) == CleanRun(CleanerStart(p, Head(queue), outDir, outReports, "none"))

ListAlipay ==
    /\ opc = "alipay" /\ ~listed
    /\ results' = listing("alipay").results
    /\ opc' = listing("alipay").opc
    /\ listed' = listing("alipay").listed
    /\ queue' = listing("alipay").queue
    /\ discovered' = listing("alipay").discovered
    /\ UNCHANGED <<detVars, pureVars, cleaner, inputDir, dirReadable, passed, cleaned,
                   outDir, outReports, exitCode>>

CleanAlipay ==
    /\ opc = "alipay" /\ listed
    /\ LET cs == clean_file("alipay")
           turn == loop_turn("alipay", cs.result)
       IN  /\ passed' = [passed EXCEPT !["alipay"] = @ \cup {FileName(Head(queue))}]
           /\ cleaned' = IF cs.result = "True"
                         THEN [cleaned EXCEPT !["alipay"] = @ \cup {FileName(Head(queue))}]
                         ELSE cleaned
           /\ outDir' = cs.fs
           /\ outReports' = cs.reports
           /\ results' = turn.results
           /\ opc' = turn.opc
           /\ listed' = turn.listed
           /\ queue' = turn.queue
    /\ UNCHANGED <<detVars, pureVars, cleaner, inputDir, dirReadable, discovered, exitCode>>

ListWechat ==
    /\ opc = "wechat" /\ ~listed
    /\ results' = listing("wechat").results
    /\ opc' = listing("wechat").opc
    /\ listed' = listing("wechat").listed
    /\ queue' = listing("wechat").queue
    /\ discovered' = listing("wechat").discovered
    /\ UNCHANGED <<detVars, pureVars, cleaner, inputDir, dirReadable, passed, cleaned,
                   outDir, outReports, exitCode>>

CleanWechat ==
    /\ opc = "wechat" /\ listed
    /\ LET cs == clean_file("wechat")
           turn == loop_turn("wechat", cs.result)
       IN  /\ passed' = [passed EXCEPT !["wechat"] = @ \cup {FileName(Head(queue))}]
           /\ cleaned' = IF cs.result = "True"
                         THEN [cleaned EXCEPT !["wechat"] = @ \cup {FileName(Head(queue))}]
                         ELSE cleaned
           /\ outDir' = cs.fs
           /\ outReports' = cs.reports
           /\ results' = turn.results
           /\ opc' = turn.opc
           /\ listed' = turn.listed
           /\ queue' = turn.queue
    /\ UNCHANGED <<detVars, pureVars, cleaner, inputDir, dirReadable, discovered, exitCode>>

ListJingdong ==
    /\ opc = "jingdong" /\ ~listed
    /\ results' = listing("jingdong").results
    /\ opc' = listing("jingdong").opc
    /\ listed' = listing("jingdong").listed
    /\ queue' = listing("jingdong").queue
    /\ discovered' = listing("jingdong").discovered
    /\ UNCHANGED <<detVars, pureVars, cleaner, inputDir, dirReadable, passed, cleaned,
                   outDir, outReports, exitCode>>

CleanJingdong ==
    /\ opc = "jingdong" /\ listed
    /\ \E r \in clean_jingdong_bill_outcomes :
          LET turn == loop_turn("jingdong", r)
          IN  /\ passed' = [passed EXCEPT !["jingdong"] = @ \cup {FileName(Head(queue))}]
              /\ cleaned' = IF r = "True"
                            THEN [cleaned EXCEPT !["jingdong"] = @ \cup {FileName(Head(queue))}]
                            ELSE cleaned
              /\ outDir' = IF r = "True"
                           THEN to_csv(outDir, output_name("jingdong", Head(queue)),
                                       DataFrame(<<S(PingTai)>>, <<>>))
                           ELSE outDir
              /\ results' = turn.results
              /\ opc' = turn.opc
              /\ listed' = turn.listed
              /\ queue' = turn.queue
    /\ UNCHANGED <<detVars, pureVars, cleaner, inputDir, dirReadable, discovered, outReports,
                   exitCode>>

\* the name of the merged ledger in the output directory
merged_name == [platform |-> "merged", stem |-> Stem("merged", 0)]

\* the normalized files of a directory: every file but the merged ledger
normalized_files(fs) == {f \in fs : f.name # merged_name}

\* the orders in which a listing can give the files of a directory
Listings(fs) == {l \in [1..Cardinality(fs) -> fs] : Range(l) = fs}

RECURSIVE concat_columns(_)
\* the labels of the tables of a list, each once, in the order met
concat_columns(files) ==
    IF files = <<>> THEN <<>>
    ELSE LET init == concat_columns(SubSeq(files, 1, Len(files) - 1))
             cols == files[Len(files)].df.columns
         IN  init \o SelectSeq(cols, LAMBDA c : c \notin Range(init))

\* the rows of a table under the labels cols, a cell without a column of
\* its label being missing
reindex(df, cols) ==
    [r \in 1..Len(df.rows) |->
        [c \in 1..Len(cols) |->
            IF \E i \in 1..Len(df.columns) : df.columns[i] = cols[c]
            THEN df.rows[r][CHOOSE i \in 1..Len(df.columns) : df.columns[i] = cols[c]]
            ELSE NaN]]

RECURSIVE concat_rows(_, _)
concat_rows(files, cols) ==
    IF files = <<>> THEN <<>>
    ELSE concat_rows(SubSeq(files, 1, Len(files) - 1), cols)
            \o reindex(files[Len(files)].df, cols)

\* a variant of merge_bills that drops the rows equal to an earlier row of
\* the merged table; C18 tells it from the merge
merge_bills_deduplicated(files) ==
    DataFrame(concat_columns(files),
              drop_duplicates(concat_rows(files, concat_columns(files))))

\* merge_bills (data/clean_merge_bill.py): the normalized files, in the
\* order of the listing, one after the other
merge_bills(files) ==
    DataFrame(concat_columns(files), concat_rows(files, concat_columns(files)))

\* a variant of has_successful_process that takes a False for a result
\* too; C21 tells it from the code
has_any_result(res) == \E k \in DOMAIN res : res[k] # "None"

\* any(result for result in results.values() if result)
has_successful_process(res) == \E k \in DOMAIN res : res[k] = "True"

\* the merge step of main
Merge ==
    /\ opc = "merge"
    /\ IF has_successful_process(results)
       THEN \E r \in merge_bills_outcomes, files \in Listings(normalized_files(outDir)) :
               /\ results' = with_merge(results, r)
               /\ outDir' = IF r = "True"
                            THEN to_csv(outDir, merged_name, merge_bills(files))
                            ELSE outDir
       ELSE /\ results' = with_merge(results, "None")
            /\ UNCHANGED outDir
    /\ opc' = "report"
    /\ UNCHANGED <<detVars, pureVars, cleaner, inputDir, dirReadable, listed, queue, discovered,
                   passed, cleaned, outReports, exitCode>>

\* a variant of exit_code that takes every falsy result, None too, for a
\* failure; C2 tells it from the code
exit_code_any_falsy(res) == IF \E k \in DOMAIN res : res[k] # "True" THEN 1 ELSE 0

\* if any(result is False for result in results.values()): return 1; return 0
exit_code(res) == IF \E k \in DOMAIN res : res[k] = "False" THEN 1 ELSE 0

\* generate_processing_report, and main's return
Finish ==
    /\ opc = "report"
    /\ outReports' = outReports \cup {"integrated"}
    /\ exitCode' = exit_code(results)
    /\ opc' = "done"
    /\ UNCHANGED <<detVars, pureVars, cleaner, inputDir, dirReadable, listed, queue, results,
                   discovered, passed, cleaned,
                   outDir>>

\* the files a directory of the model can hold
\* the lines of a well-formed export of platform p
GoodLines(p) == CsvLines(1, PlainHeader(p), <<"a">>)

\* a longer well-formed export of platform p
LongLines(p) == CsvLines(1, PlainHeader(p), <<"a", "b">>)

\* the sheet of a well-formed workbook
GoodSheet ==
    DataFrame(<<S(JiaoYiShiJian), S(JinE)>>, <<<<Ts(1), Num(500)>>>>)

\* a file is a well-formed export, delimited or a workbook, or empty (which
\* read_csv refuses)
FilePool ==
    {CsvFile(Stem(Prefix(p), id), ".csv", RawAscii, GoodLines(p)) :
        p \in Platforms, id \in 1..2}
    \cup {CsvFile(Stem(Prefix(p), 2), ".csv", RawAscii, LongLines(p)) : p \in Platforms}
    \cup {File(Stem("alipay", 1), ".xlsx", RawAscii, <<>>, GoodSheet)}
    \cup {CsvFile(Stem(Prefix(p), id), ".csv", <<>>, <<>>) : p \in Platforms, id \in 1..2}
    \cup {CsvFile(Stem("alipay", 1), ".txt", RawAscii, GoodLines("alipay"))}
    \cup {CsvFile(Stem("jingdong", id), ".csv", RawAscii, <<>>) : id \in 1..2}
    \cup {CsvFile(Stem("other", 1), ".csv", RawAscii, <<>>)}

\* listings of up to MaxFiles files with distinct names
Directories ==
    {d \in SeqsUpTo(FilePool, MaxFiles) :
        \A i, j \in 1..Len(d) : i # j => FileName(d[i]) # FileName(d[j])}

Init ==
    /\ probe = <<>>
    /\ detected = [raised |-> "pending", enc |-> "none"]
    /\ cleaner = IdleCleaner
    /\ PureIdle
    /\ inputDir \in Directories
    /\ dirReadable \in BOOLEAN
    /\ opc = "alipay"
    /\ listed = FALSE
    /\ queue = <<>>
    /\ results = NoResults
    /\ discovered = NoHistory
    /\ passed = NoHistory
    /\ cleaned = NoHistory
    /\ outDir = {}
    /\ outReports = {}
    /\ exitCode = -1

Next ==
    \/ ListAlipay
    \/ CleanAlipay
    \/ ListWechat
    \/ CleanWechat
    \/ ListJingdong
    \/ CleanJingdong
    \/ Merge
    \/ Finish

Spec == Init /\ [][Next]_vars

-----------------------------------------------------------------------------
(* Claims about the orchestrator (Spec) *)

\* the order of main's steps
Position(pc) ==
    CASE pc = "alipay" -> 1
      [] pc = "wechat" -> 2
      [] pc = "jingdong" -> 3
      [] pc = "merge" -> 4
      [] pc = "report" -> 5
      [] pc = "done" -> 6
      [] OTHER -> 0

\* main has the result of process_<p>_bills
ProcessorReturned(p) == Position(opc) > Position(p)

\* C1: a file the cleaner fails on does not stop the files next to it: when
\* a platform processor has returned, every file it discovered has been
\* passed to the cleaner.
C1_SiblingsProcessed ==
    \A p \in PlatformNames :
        ProcessorReturned(p) => discovered[p] \subseteq passed[p]

\* C2 as stated: main returns 1 only if one of the three platform processors
\* returned False.
C2_ExitOnlyOnPlatformFailure ==
    exitCode = 1 => \E p \in PlatformNames : results[p] = "False"

\* C2 as amended: main returns 1 exactly when a platform processor or the
\* merge step returned False, and 0 otherwise; a None makes no failure.
C2_ExitOnExplicitFailure ==
    opc = "done" =>
        /\ exitCode \in {0, 1}
        /\ exitCode = 1 <=>
              \E k \in PlatformNames \cup {"merge"} : results[k] = "False"
        /\ (\A k \in PlatformNames \cup {"merge"} : results[k] \in {"True", "None"})
              => exitCode = 0

C2_Witness ==
    /\ opc = "done"
    /\ exitCode = 0
    /\ \E p \in PlatformNames : results[p] = "None"
    /\ \E p \in PlatformNames : results[p] = "True"

\* merge_bills was called: main holds what it returned
MergeInvoked == "merge" \in DOMAIN results /\ results["merge"] \in merge_bills_outcomes

\* C21: main goes through alipay, wechat, jingdong, the merge step and the
\* report in this order, no step left out whatever a processor returned;
\* merge_bills is called exactly when a platform result is True, the merge
\* result being None otherwise; a run on an empty input directory returns 0.
C21_AllPlatformsThenMerge ==
    /\ [][opc' # opc => Position(opc') = Position(opc) + 1]_vars
    /\ [](Position(opc) > Position("merge") =>
            /\ MergeInvoked <=> \E p \in PlatformNames : results[p] = "True"
            /\ ~MergeInvoked => results["merge"] = "None")
    /\ [](opc = "done" /\ dirReadable /\ inputDir = <<>> =>
            /\ \A k \in PlatformNames \cup {"merge"} : results[k] = "None"
            /\ exitCode = 0)

\* a run whose first processor failed and whose second succeeded, merged
C21_Witness ==
    /\ opc = "done"
    /\ results["alipay"] = "False"
    /\ results["wechat"] = "True"
    /\ MergeInvoked

\* the names of the files of the input directory that pass p's filter
matched(p) == {FileName(f) : f \in Range(platform_files(p, inputDir))}

\* C22: process_alipay_bills and process_wechat_bills return None exactly
\* when the listing gave no file that passes the filter, True exactly when
\* a file passed it and the cleaner returned True for every such file, and
\* False otherwise, as when the listing raised; main always gets a result.
C22_ProcessorOutcome ==
    \A p \in Platforms :
        ProcessorReturned(p) =>
            /\ results[p] \in {"None", "True", "False"}
            /\ results[p] = "None" <=> dirReadable /\ matched(p) = {}
            /\ results[p] = "True" <=>
                  dirReadable /\ matched(p) # {} /\ matched(p) \subseteq cleaned[p]
            /\ ~dirReadable => results[p] = "False"

\* a processor that returned False after a file cleaned with success
C22_Witness ==
    \E p \in Platforms :
        /\ ProcessorReturned(p)
        /\ results[p] = "False"
        /\ cleaned[p] # {}
        /\ ~(matched(p) \subseteq cleaned[p])

\* C19: at the end of a run every input cleaned with success has its
\* output under the name of its platform and of its own name without the
\* extension, and there are as many outputs as such inputs.
C19_OneOutputPerInput ==
    opc = "done" =>
        \A p \in Platforms :
            /\ \A f \in cleaned[p] :
                  \E o \in outDir : o.name = [platform |-> p, stem |-> f.stem]
            /\ Cardinality({o \in outDir : o.name.platform = p})
                  = Cardinality(cleaned[p])

\* the merged ledger, where there is one
merged_ledgers == {o \in outDir : o.name = merged_name}

RECURSIVE total_rows(_)
total_rows(files) ==
    IF files = <<>> THEN 0
    ELSE total_rows(Tail(files)) + Len(Head(files).df.rows)

\* C18: the merged ledger has as many rows as the normalized files have
\* together, and is those files one after the other in some order: the
\* rows of a file stay in their order, and equal rows of two files both
\* stay.
C18_MergeIsUnion ==
    \A m \in merged_ledgers :
        \E files \in Listings(normalized_files(outDir)) :
            /\ Len(m.df.rows) = total_rows(files)
            /\ m.df.rows = concat_rows(files, m.df.columns)

\* a ledger merged from two files that hold an equal row, one of them of
\* more rows than one
C18_Witness ==
    /\ opc = "done"
    /\ \E m \in merged_ledgers :
          \E f, g \in normalized_files(outDir) :
              /\ f # g
              /\ Len(f.df.rows) > 1
              /\ \E i \in 1..Len(f.df.rows), j \in 1..Len(g.df.rows) :
                    reindex(f.df, m.df.columns)[i] = reindex(g.df, m.df.columns)[j]
              /\ Len(m.df.rows) = Len(f.df.rows) + Len(g.df.rows)

-----------------------------------------------------------------------------
(* SpecClean: one call of a cleaner, stage by stage *)

InitClean ==
    /\ cleaner \in CleanerCalls
    /\ probe = <<>>
    /\ detected = [raised |-> "pending", enc |-> "none"]
    /\ MainIdle
    /\ PureIdle

DoDetectEncoding ==
    /\ cleaner.pc = "start"
    /\ cleaner' = DetectEncoding(cleaner)
    /\ UNCHANGED <<detVars, mainVars, pureVars>>

DoCheckFormat ==
    /\ cleaner.pc = "format"
    /\ cleaner' = CheckFormat(cleaner)
    /\ UNCHANGED <<detVars, mainVars, pureVars>>

DoReadLines ==
    /\ cleaner.pc = "read"
    /\ cleaner' = ReadLines(cleaner)
    /\ UNCHANGED <<detVars, mainVars, pureVars>>

DoLocateHeader ==
    /\ cleaner.pc = "locate"
    /\ cleaner' = LocateHeader(cleaner)
    /\ UNCHANGED <<detVars, mainVars, pureVars>>

DoParseTable ==
    /\ cleaner.pc = "parse"
    /\ cleaner' = ParseTable(cleaner)
    /\ UNCHANGED <<detVars, mainVars, pureVars>>

DoReadExcel ==
    /\ cleaner.pc = "excel"
    /\ cleaner' = ReadExcel(cleaner)
    /\ UNCHANGED <<detVars, mainVars, pureVars>>

DoCleanColumnNames ==
    /\ cleaner.pc = "columns"
    /\ cleaner' = CleanColumnNames(cleaner)
    /\ UNCHANGED <<detVars, mainVars, pureVars>>

DoReconcileSchema ==
    /\ cleaner.pc = "reconcile"
    /\ cleaner' = ReconcileSchema(cleaner)
    /\ UNCHANGED <<detVars, mainVars, pureVars>>

DoNormalizeFields ==
    /\ cleaner.pc = "normalize"
    /\ cleaner' = NormalizeFields(cleaner)
    /\ UNCHANGED <<detVars, mainVars, pureVars>>

DoSanitizeRows ==
    /\ cleaner.pc = "sanitize"
    /\ cleaner' = SanitizeRows(cleaner)
    /\ UNCHANGED <<detVars, mainVars, pureVars>>

DoWriteOutput ==
    /\ cleaner.pc = "write"
    /\ cleaner' = WriteOutput(cleaner)
    /\ UNCHANGED <<detVars, mainVars, pureVars>>

DoReportAndReturn ==
    /\ cleaner.pc = "report"
    /\ cleaner' = ReportAndReturn(cleaner)
    /\ UNCHANGED <<detVars, mainVars, pureVars>>

DoHandleException ==
    /\ cleaner.pc = "except"
    /\ cleaner' = HandleException(cleaner)
    /\ UNCHANGED <<detVars, mainVars, pureVars>>

NextClean ==
    \/ DoDetectEncoding
    \/ DoCheckFormat
    \/ DoReadLines
    \/ DoLocateHeader
    \/ DoParseTable
    \/ DoReadExcel
    \/ DoCleanColumnNames
    \/ DoReconcileSchema
    \/ DoNormalizeFields
    \/ DoSanitizeRows
    \/ DoWriteOutput
    \/ DoReportAndReturn
    \/ DoHandleException

SpecClean == InitClean /\ [][NextClean]_vars

-----------------------------------------------------------------------------
(* Claims about one call of a cleaner (SpecClean) *)

Done == cleaner.pc = "done"

\* the output file of the call is in the output directory, with the table
\* the call has built
OutputWritten ==
    \E f \in cleaner.fs :
        /\ f.name = [platform |-> cleaner.platform, stem |-> cleaner.file.stem]
        /\ f.df = cleaner.df

\* C3: every normalised table a cleaner writes has a platform column, and
\* all its rows carry the same platform value.
C3_PlatformColumn ==
    \A f \in cleaner.fs :
        /\ \E c \in 1..Len(f.df.columns) : f.df.columns[c] = S(PingTai)
        /\ \A c \in 1..Len(f.df.columns) :
              f.df.columns[c] = S(PingTai) =>
                 \A r1, r2 \in 1..Len(f.df.rows) : f.df.rows[r1][c] = f.df.rows[r2][c]

\* where a call that has not returned stands: each is the guard of a stage
StagePcs ==
    {"start", "format", "read", "locate", "parse", "excel", "columns", "reconcile",
     "normalize", "sanitize", "write", "report", "except"}

\* C4: a call of a cleaner ends in one of two states, returned True with the
\* output file written before, or returned False; an exception raised in
\* the call goes to its except clause and nowhere else, and the call always
\* goes on until it has returned.
C4_TerminalStates ==
    /\ Done => cleaner.result \in {"True", "False"}
    /\ ~Done => cleaner.result = "pending" /\ cleaner.pc \in StagePcs
    /\ cleaner.result = "True" => cleaner.exc = "none" /\ OutputWritten
    /\ cleaner.exc # "none" =>
          \/ cleaner.pc = "except"
          \/ Done /\ cleaner.result = "False"

C4_Witness == Done /\ cleaner.result = "True" /\ OutputWritten

\* the table the parser made of the lines after the header line has no row
NoParsedRows ==
    /\ cleaner.header_index # None
    /\ cleaner.pc \notin {"start", "format", "read", "locate", "parse"}
    /\ read_csv(cleaner.valid_lines).exc = "none"
    /\ read_csv(cleaner.valid_lines).df.rows = <<>>

\* C5: a file with no parseable data row after its header line makes the
\* cleaner return False.
C5_NoRowsFails == Done /\ NoParsedRows => cleaner.result = "False"

\* the extensions C6 lists as supported
ClaimedExtensions(p) ==
    IF p = "alipay" THEN {".csv", ".xls", ".xlsx"} ELSE {".csv"}

Unsupported ==
    /\ cleaner.pc # "idle"
    /\ Lower(cleaner.file.ext) \notin ClaimedExtensions(cleaner.platform)

\* C6: a file whose extension the cleaner does not support makes it return
\* False, and neither an output file nor a report is written.
C6_UnsupportedFormat ==
    Unsupported =>
        /\ cleaner.fs = {}
        /\ cleaner.reports = {}
        /\ Done => cleaner.result = "False"
        /\ cleaner.pc \notin {"read", "excel", "locate", "parse", "columns", "reconcile",
                              "normalize", "sanitize", "write", "report"}

C6_Witness == Unsupported /\ Done /\ cleaner.result = "False" /\ cleaner.enc # "none"

\* the tokens C8 lists
ClaimedTokens(p) ==
    IF p = "alipay" THEN {JiaoYiShiJian, JiaoYiLeiXing, JiaoYiDuiFang}
    ELSE {JiaoYiShiJian, JiaoYiLeiXing}

IsHeaderLine(line) == \A t \in ClaimedTokens(cleaner.platform) : Contains(line, t)

AfterLocate == cleaner.pc \notin {"idle", "start", "format", "read", "locate"}
AfterParse == AfterLocate /\ cleaner.pc # "parse"

\* C8: the header index is that of the first line holding every required
\* token; the lines before it are not parsed; without such a line the whole
\* file is parsed from its first line; locating again gives the same index.
C8_HeaderLocation ==
    LET h == cleaner.header_index
        ls == cleaner.lines
    IN  /\ AfterLocate =>
            /\ h = locate_header(ls, HeaderTokens(cleaner.platform))
            /\ IF \E i \in 1..Len(ls) : IsHeaderLine(ls[i])
               THEN /\ h \in 0..(Len(ls) - 1)
                    /\ IsHeaderLine(ls[h + 1])
                    /\ \A i \in 1..h : ~IsHeaderLine(ls[i])
               ELSE h = None
        /\ AfterParse =>
            /\ h # None =>
                  /\ Len(cleaner.valid_lines) = Len(ls) - h
                  /\ \A i \in 1..Len(cleaner.valid_lines) : cleaner.valid_lines[i] = ls[h + i]
            /\ h = None => cleaner.valid_lines = ls
            /\ cleaner.failedAt # "locate"

C8_Witness ==
    /\ Done
    /\ cleaner.result = "True"
    /\ cleaner.header_index > 0
    /\ \E i \in (cleaner.header_index + 2)..Len(cleaner.lines) : IsHeaderLine(cleaner.lines[i])

\* C9: the check of the required columns only logs its candidates: it
\* leaves the labels and the values of the table as they are, and it does
\* not raise.
C9_AdvisoryOnly ==
    [][cleaner.pc = "reconcile" =>
          /\ cleaner'.df = cleaner.df
          /\ cleaner'.exc = "none"]_vars

\* a failure that has to do with something else than a missing column: the
\* direction labels, or the output directory
UnrelatedFailure == cleaner.failedAt \in {"normalize", "write"}

\* C10: a file without some of the required columns still runs to Success:
\* the table is written without these columns, and the cleaner does not
\* return False because of them.
C10_MissingColumnsSucceed ==
    Done /\ cleaner.missing # <<>> =>
        \/ /\ cleaner.result = "True"
           /\ OutputWritten
           /\ \A m \in 1..Len(cleaner.missing) :
                 \A c \in 1..Len(cleaner.df.columns) :
                    cleaner.df.columns[c] # S(cleaner.missing[m])
        \/ /\ cleaner.result = "False"
           /\ UnrelatedFailure

\* the cells of the columns labelled name in the files written
WrittenCells(name) ==
    UNION {UNION {{f.df.rows[r][c] : r \in 1..Len(f.df.rows)} :
                     c \in {i \in 1..Len(f.df.columns) : f.df.columns[i] = S(name)}} :
              f \in cleaner.fs}

\* C11: the amount rule makes 1234.56 of the text with the currency sign
\* and the thousands comma, and a null of a text that is no number; so
\* every amount of a table written is a number or null, never a text.
C11_AmountNumericOrNull ==
    /\ to_numeric(S(<<"YEN", "1", ",", "2", "3", "4", ".", "5", "6">>)) = Num(123456)
    /\ to_numeric(S(<<"a", "b", "c">>)) = NaN
    /\ \A v \in WrittenCells(JinE) : v.k \in {"num", "nan"}

\* the canonical direction labels: income, expense, unknown
DirectionEnum == {ShouRu, ZhiChu, <<"unknown">>}

\* C12: every direction of a table written is one of income, expense and
\* unknown, a label that is none of them having become unknown.
C12_DirectionEnum ==
    \A v \in WrittenCells(ShouZhi) : v.k = "str" /\ v.s \in DirectionEnum

\* the statistics of a call: the rows before and after, the rows dropped as
\* empty and as duplicates, the columns
Statistics(cs) ==
    [original_rows |-> Len(cs.df.rows) + cs.cleaned_rows + cs.deduplicated_rows,
     rows |-> Len(cs.df.rows),
     cleaned_rows |-> cs.cleaned_rows,
     deduplicated_rows |-> cs.deduplicated_rows,
     columns |-> cs.df.columns]

\* what the return statements of a cleaner give back
ReturnedBooleans == {"True", "False"}

\* C20: what a cleaner returns to its caller for a file it has cleaned is
\* the statistics of that file, not a bare boolean beside a written report.
C20_StatisticsReturned ==
    Done /\ OutputWritten =>
        /\ cleaner.result \notin ReturnedBooleans
        /\ cleaner.result = Statistics(cleaner)

\* the stages of a call that start with the parsed table in df
ParsedPcs == {"columns", "reconcile", "normalize", "sanitize", "write", "report"}

\* len(df) + cleaned_rows + deduplicated_rows, the original record count of
\* the report
RecordCount(cs) == Len(cs.df.rows) + cs.cleaned_rows + cs.deduplicated_rows

\* C23: the two counters are never negative, and from the parsed table on
\* no stage changes the sum of the row count and the two counters or adds
\* a row: the original record count of the report is the parsed row count,
\* and it is the final row count plus the rows removed as empty plus the
\* rows removed as duplicates.
C23_StatisticsBalance ==
    /\ [](cleaner.cleaned_rows >= 0 /\ cleaner.deduplicated_rows >= 0)
    /\ [](cleaner.pc \in ParsedPcs \ {"write", "report"} =>
            cleaner.cleaned_rows = 0 /\ cleaner.deduplicated_rows = 0)
    /\ [][cleaner.pc \in ParsedPcs =>
            /\ RecordCount(cleaner') = RecordCount(cleaner)
            /\ Len(cleaner'.df.rows) <= Len(cleaner.df.rows)]_vars

\* a call that returned True with its report written, after an empty row
\* and a duplicate row were removed
C23_Witness ==
    /\ Done
    /\ cleaner.result = "True"
    /\ cleaner.platform \in cleaner.reports
    /\ cleaner.cleaned_rows > 0
    /\ cleaner.deduplicated_rows > 0
    /\ Len(cleaner.df.rows) > 0

\* the call is on an export with three preamble lines, the header line and
\* five data lines of which one is empty and one a duplicate
IsScenario ==
    /\ cleaner.pc # "idle"
    /\ cleaner.ioFail = "none"
    /\ \E ks \in ScenarioRows :
          cleaner.file.lines = CsvLines(3, PlainHeader(cleaner.platform), ks)

\* C17: on such an export the cleaner succeeds, the table written has three
\* rows in ascending order of time and a platform column of one value, and
\* the statistics are one empty row and one duplicate row removed.
C17_EndToEnd ==
    IsScenario /\ Done =>
        /\ cleaner.result = "True"
        /\ cleaner.cleaned_rows = 1
        /\ cleaner.deduplicated_rows = 1
        /\ \E f \in cleaner.fs :
              LET t == ColIndex(f.df, JiaoYiShiJian)
                  n == Len(f.df.rows)
              IN  /\ f.name = output_name(cleaner.platform, cleaner.file)
                  /\ n = 3
                  /\ \A i, j \in 1..n :
                        i < j => ~TimeBefore(f.df.rows[j][t], f.df.rows[i][t])
                  /\ HasColumn(f.df, PingTai)
                  /\ \A i, j \in 1..n :
                        f.df.rows[i][ColIndex(f.df, PingTai)]
                           = f.df.rows[j][ColIndex(f.df, PingTai)]

-----------------------------------------------------------------------------
(* SpecDetect: detect_file_encoding applied to every byte sequence of up to *)
(* MaxBytes bytes of the alphabet                                          *)

Pending == [raised |-> "pending", enc |-> "none"]

InitDetect ==
    /\ probe \in SeqsUpTo(ByteAlphabet, MaxBytes)
    /\ detected = Pending
    /\ cleaner = IdleCleaner
    /\ MainIdle
    /\ PureIdle

Detect ==
    /\ detected = Pending
    /\ detected' = detect_file_encoding(probe)
    /\ UNCHANGED <<probe, cleaner, mainVars, pureVars>>

NextDetect == Detect

SpecDetect == InitDetect /\ [][NextDetect]_vars

\* the candidates whose probe of the file raises nothing
CleanCandidates(bs) ==
    {i \in 1..Len(encodings) : ProbeOutcome(bs, encodings[i]) = "ok"}

\* C7: detect_file_encoding returns the first of utf-8, gbk, utf-16, latin1
\* whose decode of the probed lines raises no error, and utf-8 when all
\* fail; it never raises, so the result is always one of the candidates.
C7_FirstCleanCandidate ==
    detected # Pending =>
        /\ detected.raised = "none"
        /\ detected.enc \in Range(encodings)
        /\ IF CleanCandidates(probe) = {}
           THEN detected.enc = "utf-8"
           ELSE detected.enc = encodings[Min(CleanCandidates(probe))]

-----------------------------------------------------------------------------
(* SpecField: the amount rule and the datetime rule, each applied to a cell *)
(* and then to its own result                                               *)

\* the tokens of the texts given to the rules
FieldAlphabet == {"YEN", ",", "SP", ".", "-", "1", "5", "a", "t1"}

\* the cells a raw column can hold: texts, numbers and times of a sheet,
\* missing values
FieldInputs ==
    {S(t) : t \in SeqsUpTo(FieldAlphabet, MaxText) \ {<<>>}}
    \cup {Num(n) : n \in {0, 5, 50, 1250, 123456, -1250, -5}}
    \cup {Ts(1), NaN, NaT}

\* the rule of the model for a column
FieldRule(rule, v) == IF rule = "amount" THEN to_numeric(v) ELSE to_datetime(v)

InitField ==
    /\ probe = <<>>
    /\ detected = [raised |-> "pending", enc |-> "none"]
    /\ cleaner = IdleCleaner
    /\ MainIdle
    /\ table = TableIdle
    /\ FeishuIdle
    /\ \E rule \in {"amount", "datetime"}, raw \in FieldInputs :
          field = [rule |-> rule, raw |-> raw, value |-> raw, once |-> raw, passes |-> 0]

\* df[amount] = pd.to_numeric(df[amount].astype(str).str.replace(...))
NormalizeAmount ==
    /\ field.rule = "amount"
    /\ field.passes < MaxPasses
    /\ field' = [field EXCEPT !.value = to_numeric(field.value),
                              !.once = IF field.passes = 0
                                       THEN to_numeric(field.value) ELSE @,
                              !.passes = @ + 1]
    /\ UNCHANGED <<detVars, cleaner, mainVars, table, upload, reader>>

\* df[time] = pd.to_datetime(df[time], errors='coerce')
NormalizeDatetime ==
    /\ field.rule = "datetime"
    /\ field.passes < MaxPasses
    /\ field' = [field EXCEPT !.value = to_datetime(field.value),
                              !.once = IF field.passes = 0
                                       THEN to_datetime(field.value) ELSE @,
                              !.passes = @ + 1]
    /\ UNCHANGED <<detVars, cleaner, mainVars, table, upload, reader>>

NextField ==
    \/ NormalizeAmount
    \/ NormalizeDatetime

SpecField == InitField /\ [][NextField]_vars

\* C13: a field rule applied to its own result leaves it as it is: after
\* any number of passes the cell is what the first pass made of it, and it
\* is a number, a timestamp or null.
C13_NormalizeIdempotent ==
    field.passes >= 1 =>
        /\ field.value = field.once
        /\ field.rule = "amount" => field.value.k \in {"num", "nan"}
        /\ field.rule = "datetime" => field.value.k \in {"ts", "nat"}

\* a second pass over a number with decimals that the first pass made of a
\* text with a currency sign
C13_Witness ==
    /\ field.passes = 2
    /\ field.rule = "amount"
    /\ field.raw.k = "str" /\ Contains(field.raw.s, <<"YEN">>)
    /\ field.value.k = "num" /\ field.value.n % 100 # 0

-----------------------------------------------------------------------------
(* SpecSanitize: the row sanitiser (drop the empty rows, drop the duplicate *)
(* rows, sort by time) applied to a table and then to its own result        *)

\* the rows of the tables: a time, and one more cell
TableRowValues ==
    {<<t, x>> : t \in {Ts(1), Ts(2), NaT}, x \in {S(<<"x">>), S(<<"y">>), NaN}}

\* the labels of the two columns
TableColumns(hasTime) ==
    IF hasTime THEN <<S(JiaoYiShiJian), S(JiaoYiDuiFang)>>
    ELSE <<S(JiaoYiLeiXing), S(JiaoYiDuiFang)>>

InitSanitize ==
    /\ probe = <<>>
    /\ detected = [raised |-> "pending", enc |-> "none"]
    /\ cleaner = IdleCleaner
    /\ MainIdle
    /\ field = FieldIdle
    /\ FeishuIdle
    /\ \E hasTime \in BOOLEAN, input \in SeqsUpTo(TableRowValues, MaxTableRows) :
          table = [hasTime |-> hasTime, input |-> input, rows |-> input,
                   first |-> <<>>, stage |-> "dropna", pass |-> 1]

\* df.dropna(how='all', inplace=True)
DropEmptyRows ==
    /\ table.stage = "dropna"
    /\ table.pass <= MaxPasses
    /\ table' = [table EXCEPT !.rows = dropna_all(table.rows), !.stage = "dedup"]
    /\ UNCHANGED <<detVars, cleaner, mainVars, field, upload, reader>>

\* df.drop_duplicates(inplace=True)
DropDuplicateRows ==
    /\ table.stage = "dedup"
    /\ table' = [table EXCEPT !.rows = drop_duplicates(table.rows), !.stage = "sort"]
    /\ UNCHANGED <<detVars, cleaner, mainVars, field, upload, reader>>

\* if time in df.columns: df.sort_values(by=time, inplace=True)
SortByTime ==
    /\ table.stage = "sort"
    /\ \E out \in (IF HasColumn(DataFrame(TableColumns(table.hasTime), table.rows),
                              JiaoYiShiJian)
                   THEN sort_orders(table.rows, 1) ELSE {table.rows}) :
          table' = [table EXCEPT !.rows = out,
                                 !.first = IF table.pass = 1 THEN out ELSE @,
                                 !.pass = @ + 1,
                                 !.stage = "dropna"]
    /\ UNCHANGED <<detVars, cleaner, mainVars, field, upload, reader>>

NextSanitize ==
    \/ DropEmptyRows
    \/ DropDuplicateRows
    \/ SortByTime

SpecSanitize == InitSanitize /\ [][NextSanitize]_vars

\* a row without any value
EmptyRow(row) == \A c \in 1..Len(row) : IsNull(row[c])

\* C14: the sanitiser run on its own result removes no row and leaves the
\* rows in their order, rows of equal time and rows without a time too.
C14_SanitizeIdempotent ==
    table.pass >= 2 => table.rows = table.first

\* C15: with a time column, the sanitised rows are in ascending order of
\* time, every row without a time after every row with one; and a row
\* without a time that is not wholly empty is kept.
C15_SortedNullsLast ==
    table.hasTime /\ table.pass >= 2 =>
        /\ \A i, j \in 1..Len(table.rows) :
              i < j =>
                 /\ IsNull(table.rows[i][1]) => IsNull(table.rows[j][1])
                 /\ ~IsNull(table.rows[i][1]) /\ ~IsNull(table.rows[j][1])
                       => table.rows[i][1].n <= table.rows[j][1].n
        /\ \A r \in Range(table.input) :
              IsNull(r[1]) /\ ~EmptyRow(r) => r \in Range(table.rows)

\* a table sorted out of an input that had a row without a time before a
\* row with one
C15_Witness ==
    /\ table.hasTime
    /\ table.pass >= 2
    /\ \E i, j \in 1..Len(table.input) :
          /\ i < j
          /\ IsNull(table.input[i][1]) /\ ~EmptyRow(table.input[i])
          /\ ~IsNull(table.input[j][1])
    /\ \E r \in Range(table.rows) : IsNull(r[1])

\* the rows of a table in every order
Reorderings(rows) == {[i \in 1..Len(rows) |-> rows[f[i]]] : f \in Perms(Len(rows))}

\* C16: dropping the empty rows and dropping the duplicate rows commute:
\* before the sort, the rows left are the distinct rows of the input that
\* are not empty, whichever of the two runs first and whatever the order of
\* the input rows.
C16_DropsCommute ==
    table.stage = "sort" /\ table.pass = 1 =>
        /\ table.rows = dropna_all(drop_duplicates(table.input))
        /\ Range(table.rows) = {r \in Range(table.input) : ~EmptyRow(r)}
        /\ Len(table.rows) = Cardinality(Range(table.rows))
        /\ \A q \in Reorderings(table.input) :
              /\ Range(drop_duplicates(dropna_all(q))) = Range(table.rows)
              /\ Range(dropna_all(drop_duplicates(q))) = Range(table.rows)

\* both drops have removed a row
C16_Witness ==
    /\ table.stage = "sort" /\ table.pass = 1
    /\ \E r \in Range(table.input) : EmptyRow(r)
    /\ \E i, j \in 1..Len(table.input) :
          i < j /\ table.input[i] = table.input[j] /\ ~EmptyRow(table.input[i])
    /\ Len(table.rows) = 1

-----------------------------------------------------------------------------
(* SpecUpload: upload_to_feishu (bill_upload_feishu.py) on a list of rows.  *)
(* The rows are numbered 1..total in the order of the file; a batch is the  *)
(* numbers of its first and last row.                                       *)

\* batch_size = 100
batch_size == 100

\* a variant of batch that takes batch_size rows whatever is left; C24
\* tells it from the code
batch_whole_size(i, total) == [first |-> i + 1, last |-> i + batch_size]

\* bill_data[i:i+batch_size]
batch(i, total) ==
    [first |-> i + 1,
     last |-> IF i + batch_size <= total THEN i + batch_size ELSE total]

\* what a requests.post and its response.json() can do: a body with code 0,
\* a body with another code or none, an exception of either call
Responses == {"code_0", "code_other", "post_raises", "json_raises"}

\* one turn of the loop over the batches
post_batch(u, resp) ==
    LET b == batch(u.i, u.total)
    IN  IF resp = "code_0"
        THEN [u EXCEPT !.sent = Append(@, b),
                       !.uploaded_records = @ + (b.last - b.first + 1),
                       !.i = @ + batch_size]
        ELSE [u EXCEPT !.sent = Append(@, b), !.result = "False", !.pc = "done"]

InitUpload ==
    /\ probe = <<>>
    /\ detected = [raised |-> "pending", enc |-> "none"]
    /\ cleaner = IdleCleaner
    /\ MainIdle
    /\ field = FieldIdle
    /\ table = TableIdle
    /\ reader = ReaderIdle
    /\ \E n \in 0..MaxRecords :
          upload = [UploadIdle EXCEPT !.total = n, !.pc = "check"]

\* if not bill_data: return False
CheckData ==
    /\ upload.pc = "check"
    /\ upload' = IF upload.total = 0
                 THEN [upload EXCEPT !.result = "False", !.pc = "done"]
                 ELSE [upload EXCEPT !.pc = "loop"]
    /\ UNCHANGED <<detVars, cleaner, mainVars, field, table, reader>>

SendBatch ==
    /\ upload.pc = "loop"
    /\ upload.i < upload.total
    /\ \E resp \in Responses : upload' = post_batch(upload, resp)
    /\ UNCHANGED <<detVars, cleaner, mainVars, field, table, reader>>

\* the loop is over: return True
FinishUpload ==
    /\ upload.pc = "loop"
    /\ upload.i >= upload.total
    /\ upload' = [upload EXCEPT !.result = "True", !.pc = "done"]
    /\ UNCHANGED <<detVars, cleaner, mainVars, field, table, reader>>

NextUpload ==
    \/ CheckData
    \/ SendBatch
    \/ FinishUpload

SpecUpload == InitUpload /\ [][NextUpload]_vars

\* C24: the batches sent are the rows in file order, batch_size at a time,
\* the last one shorter when the rows run out; a call that returned False
\* sent nothing when there was no row, and otherwise stopped at the batch
\* that failed, every batch before it counted in uploaded_records; a call
\* that returned True sent every row and counted them all.
C24_BatchesInOrder ==
    LET n == Len(upload.sent)
    IN  /\ \A k \in 1..n :
              /\ upload.sent[k].first = batch_size * (k - 1) + 1
              /\ upload.sent[k].last >= upload.sent[k].first
              /\ upload.sent[k].last <= upload.total
              /\ upload.sent[k].last - upload.sent[k].first < batch_size
              /\ k < n => upload.sent[k].last = batch_size * k
        /\ upload.total = 0 /\ upload.pc = "done" =>
              upload.result = "False" /\ n = 0
        /\ upload.result = "False" /\ upload.total > 0 =>
              /\ n >= 1
              /\ upload.uploaded_records = batch_size * (n - 1)
              /\ upload.pc = "done"
        /\ upload.result = "True" =>
              /\ n >= 1
              /\ upload.sent[n].last = upload.total
              /\ upload.uploaded_records = upload.total

\* a call that failed at its second batch, a third one left unsent
C24_Witness ==
    /\ upload.result = "False"
    /\ Len(upload.sent) = 2
    /\ upload.uploaded_records = batch_size
    /\ upload.total > batch_size + batch_size

-----------------------------------------------------------------------------
(* SpecRead: read_csv_file (bill_upload_feishu.py).  A file is a sequence   *)
(* of chunks, a chunk being what the text layer reads and decodes at once;  *)
(* a chunk of the model holds one line, the first chunk the header line.    *)

\* encodings = ['utf-8', 'gbk', 'utf-16']
read_encodings == <<"utf-8", "gbk", "utf-16">>

\* the lines of the modelled files: 'A', U+4E2D in gbk, U+00D6 in utf-8,
\* U+00E9 in latin1, each with its line end
DataLines == {<<65, 10>>, <<214, 208, 10>>, <<195, 150, 10>>, <<233, 10>>}

\* a file in utf-16 with its byte order mark: header line and one data line
Utf16File == <<<<255, 254, 65, 0, 10, 0>>, <<65, 0, 10, 0>>>>

ReadFiles ==
    {<<>>, Utf16File}
        \cup {<<<<65, 10>>>> \o d : d \in SeqsUpTo(DataLines, MaxChunks)}

RECURSIVE first_chunks(_, _)
\* the bytes of the first k chunks of a file
first_chunks(file, k) ==
    IF k = 0 THEN <<>> ELSE first_chunks(file, k - 1) \o file[k]

\* the row csv.DictReader makes of a line decoded with enc: the text of a
\* line of ASCII bytes is the same under utf-8 and gbk
row_of(line, enc) ==
    [line |-> line,
     enc |-> IF enc # "utf-16" /\ \A j \in 1..Len(line) : line[j] < 128
             THEN "ascii" ELSE enc]

\* except UnicodeDecodeError: continue.  data keeps what was appended
next_encoding(rd) ==
    IF rd.e < Len(read_encodings)
    THEN [rd EXCEPT !.e = @ + 1, !.k = 0]
    ELSE [rd EXCEPT !.pc = "return"]

\* what the decoder does with the next chunk, or with the end of the file
read_outcome(rd) ==
    IF rd.k < Len(rd.file)
    THEN Decode(first_chunks(rd.file, rd.k + 1), read_encodings[rd.e], FALSE)
    ELSE Decode(first_chunks(rd.file, rd.k), read_encodings[rd.e], TRUE)

InitRead ==
    /\ probe = <<>>
    /\ detected = [raised |-> "pending", enc |-> "none"]
    /\ cleaner = IdleCleaner
    /\ MainIdle
    /\ field = FieldIdle
    /\ table = TableIdle
    /\ upload = UploadIdle
    /\ \E f \in ReadFiles : reader = [ReaderIdle EXCEPT !.file = f, !.pc = "read"]

\* for row in reader: data.append(row), for the rows of one chunk
ReadChunk ==
    /\ reader.pc = "read"
    /\ reader.k < Len(reader.file)
    /\ read_outcome(reader) = "ok"
    /\ reader' = [reader EXCEPT
                    !.k = @ + 1,
                    !.data = IF reader.k = 0 THEN @
                             ELSE Append(@, row_of(reader.file[reader.k + 1],
                                                   read_encodings[reader.e]))]
    /\ UNCHANGED <<detVars, cleaner, mainVars, field, table, upload>>

\* the file is read to its end: break
EndOfFile ==
    /\ reader.pc = "read"
    /\ reader.k = Len(reader.file)
    /\ read_outcome(reader) = "ok"
    /\ reader' = [reader EXCEPT !.enc = read_encodings[reader.e], !.pc = "return"]
    /\ UNCHANGED <<detVars, cleaner, mainVars, field, table, upload>>

NextEncoding ==
    /\ reader.pc = "read"
    /\ read_outcome(reader) = "UnicodeDecodeError"
    /\ reader' = next_encoding(reader)
    /\ UNCHANGED <<detVars, cleaner, mainVars, field, table, upload>>

\* except Exception: return []
ReadFails ==
    /\ reader.pc = "read"
    /\ read_outcome(reader) \notin {"ok", "UnicodeDecodeError"}
    /\ reader' = [reader EXCEPT !.result = <<>>, !.pc = "done"]
    /\ UNCHANGED <<detVars, cleaner, mainVars, field, table, upload>>

\* return data
ReturnData ==
    /\ reader.pc = "return"
    /\ reader' = [reader EXCEPT !.result = reader.data, !.pc = "done"]
    /\ UNCHANGED <<detVars, cleaner, mainVars, field, table, upload>>

NextRead ==
    \/ ReadChunk
    \/ EndOfFile
    \/ NextEncoding
    \/ ReadFails
    \/ ReturnData

SpecRead == InitRead /\ [][NextRead]_vars

\* the data lines of a file as rows decoded with enc, each once
rows_once(file, enc) ==
    [j \in 1..(IF file = <<>> THEN 0 ELSE Len(file) - 1) |-> row_of(file[j + 1], enc)]

\* C25: when an encoding succeeded, read_csv_file returns the data rows of
\* the file decoded with it, each once, and no row of an earlier attempt.
C25_RowsOnce ==
    reader.pc = "done" /\ reader.enc # "none" =>
        reader.result = rows_once(reader.file, reader.enc)

=============================================================================
